---- MODULE Spec2Model ----
(***************************************************************************)
(* Model of the numeric indicator layer of src/netenomics.js.              *)
(*                                                                         *)
(* The library is stateless: the state of the model is the caller's array  *)
(* (data), and the record of the last call made on it (fn, args, ret,      *)
(* reads).  JavaScript Numbers are modelled as exact extended rationals    *)
(* <<n, d>> (d > 0, lowest terms) with the IEEE special values NaN =       *)
(* <<0,0>>, +Infinity = <<1,0>>, -Infinity = <<-1,0>>.  Rounding of        *)
(* binary64 and the sign of zero are not modelled; samples are small       *)
(* integers.  Math.sqrt is kept symbolic: a value a + b*sqrt(r) is the     *)
(* record [a, b, r] (a "surd"), compared exactly.                          *)
(***************************************************************************)
EXTENDS Integers, Sequences, FiniteSets, TLC

VARIABLES data, fn, args, ret, reads, prevRet, bids, locals

vars == <<data, fn, args, ret, reads, prevRet, bids, locals>>

(***************************************************************************)
(* Bounds of the model.                                                    *)
(***************************************************************************)
MaxLen == 3
MaxVal == 2
MaxMult == 2
PSteps == 4
MaxSteps == 2
MaxDifficulty == 2
MaxNonce == 12

Values == -1 .. MaxVal
Periods == 0 .. (MaxLen + 1)
Mults == -1 .. MaxMult

(***************************************************************************)
(* JavaScript Number arithmetic.                                           *)
(***************************************************************************)
Abs(x) == IF x < 0 THEN -x ELSE x

RECURSIVE GCD(_, _)
GCD(a, b) == IF b = 0 THEN a ELSE GCD(b, a % b)

Norm(n, d) ==
    LET g == GCD(Abs(n), d) IN <<n \div g, d \div g>>

NaN == <<0, 0>>
PosInf == <<1, 0>>
NegInf == <<-1, 0>>

Q(n) == <<n, 1>>

IsNaN(x) == x = NaN
IsFinite(x) == x[2] # 0
Sgn(x) == IF x[1] > 0 THEN 1 ELSE IF x[1] < 0 THEN -1 ELSE 0
InfOf(s) == IF s < 0 THEN NegInf ELSE PosInf

Neg(x) == <<-x[1], x[2]>>

Add(x, y) ==
    IF IsNaN(x) \/ IsNaN(y) THEN NaN
    ELSE IF ~IsFinite(x) /\ ~IsFinite(y) THEN (IF x = y THEN x ELSE NaN)
    ELSE IF ~IsFinite(x) THEN x
    ELSE IF ~IsFinite(y) THEN y
    ELSE Norm(x[1] * y[2] + y[1] * x[2], x[2] * y[2])

Sub(x, y) == Add(x, Neg(y))

Mul(x, y) ==
    IF IsNaN(x) \/ IsNaN(y) THEN NaN
    ELSE IF ~IsFinite(x) \/ ~IsFinite(y)
         THEN (IF Sgn(x) = 0 \/ Sgn(y) = 0 THEN NaN ELSE InfOf(Sgn(x) * Sgn(y)))
    ELSE Norm(x[1] * y[1], x[2] * y[2])

Div(x, y) ==
    IF IsNaN(x) \/ IsNaN(y) THEN NaN
    ELSE IF ~IsFinite(x) /\ ~IsFinite(y) THEN NaN
    ELSE IF ~IsFinite(y) THEN Q(0)
    ELSE IF ~IsFinite(x) THEN InfOf(Sgn(x) * (IF Sgn(y) < 0 THEN -1 ELSE 1))
    ELSE IF y[1] = 0 THEN (IF x[1] = 0 THEN NaN ELSE InfOf(Sgn(x)))
    ELSE IF y[1] < 0 THEN Norm(-(x[1] * y[2]), x[2] * (-y[1]))
    ELSE Norm(x[1] * y[2], x[2] * y[1])

\* x <= y and x < y and x === y on Numbers: every comparison with NaN is false
LE(x, y) ==
    IF IsNaN(x) \/ IsNaN(y) THEN FALSE
    ELSE IF x = y THEN TRUE
    ELSE IF x = NegInf \/ y = PosInf THEN TRUE
    ELSE IF x = PosInf \/ y = NegInf THEN FALSE
    ELSE x[1] * y[2] <= y[1] * x[2]

LT(x, y) == LE(x, y) /\ x # y

EQ(x, y) == ~IsNaN(x) /\ ~IsNaN(y) /\ x = y

\* Math.abs
MathAbs(x) == <<Abs(x[1]), x[2]>>

\* Math.floor of a finite Number
MathFloor(x) == IF IsFinite(x) THEN Q(x[1] \div x[2]) ELSE x

\* x || 1 : the falsy Numbers are 0 and NaN
OrOne(x) == IF IsNaN(x) \/ x = Q(0) THEN Q(1) ELSE x

(***************************************************************************)
(* Array helpers.                                                          *)
(***************************************************************************)
MinI(a, b) == IF a < b THEN a ELSE b

\* Array.prototype.slice(from, to) for 0 <= from, 0-based, end exclusive
Slice(s, from, to) == SubSeq(s, from + 1, MinI(to, Len(s)))

\* arr.reduce((a, b) => a + b, 0)
RECURSIVE ReduceSum(_)
ReduceSum(s) ==
    IF Len(s) = 0 THEN Q(0)
    ELSE Add(ReduceSum(SubSeq(s, 1, Len(s) - 1)), Q(s[Len(s)]))

\* the result of sort((a, b) => a - b): the ascending arrangement
RECURSIVE InsertAsc(_, _)
InsertAsc(s, v) ==
    IF Len(s) = 0 THEN <<v>>
    ELSE IF v < s[1] THEN <<v>> \o s
    ELSE <<s[1]>> \o InsertAsc(Tail(s), v)

RECURSIVE SortAsc(_)
SortAsc(s) ==
    IF Len(s) = 0 THEN <<>>
    ELSE InsertAsc(SortAsc(SubSeq(s, 1, Len(s) - 1)), s[Len(s)])

(***************************************************************************)
(* Return values: [kind, val].                                             *)
(***************************************************************************)
RetNone == [kind |-> "none", val |-> <<>>]
RetNull == [kind |-> "null", val |-> <<>>]
RetNum(x) == [kind |-> "num", val |-> x]
RetSeq(s) == [kind |-> "seq", val |-> s]
RetBands(s) == [kind |-> "bands", val |-> s]

(***************************************************************************)
(* FleonExtended.Indicators.sma                                            *)
(***************************************************************************)
\* mutant: the window misses its first sample
SmaWindow_Short(d, period, i) == Slice(d, i - period + 1, i)

\* const window = data.slice(i - period, i)
SmaWindow(d, period, i) == Slice(d, i - period, i)

\* lines 179-185: one mean per i = period .. data.length
SmaCompute(d, period) ==
    RetSeq([k \in 1 .. (Len(d) - period + 1) |->
              Div(ReduceSum(SmaWindow(d, period, period + k - 1)), Q(period))])

\* mutant: the guard also rejects a series of exactly `period` samples
sma_GuardLE(d, period) ==
    IF Len(d) <= period THEN RetNull
    ELSE SmaCompute(d, period)

sma(d, period) ==
    IF Len(d) < period THEN RetNull
    ELSE SmaCompute(d, period)

smaReads(d, period) ==
    IF Len(d) < period THEN {}
    ELSE UNION {(i - period) .. (i - 1) : i \in period .. Len(d)}

(***************************************************************************)
(* FleonExtended.Indicators.rsi                                            *)
(***************************************************************************)
\* diff = data[i] - data[i - 1], i 0-based
Diff(d, i) == Sub(Q(d[i + 1]), Q(d[i]))

\* the seeding loop's contribution of a falling difference to `losses`
RsiSeedLoss(losses, diff) == Sub(losses, MathAbs(diff))

\* gains and losses after the iterations 1 .. i of the first loop
RECURSIVE RsiSeed(_, _)
RsiSeed(d, i) ==
    IF i = 0 THEN [gains |-> Q(0), losses |-> Q(0)]
    ELSE LET prev == RsiSeed(d, i - 1)
             diff == Diff(d, i)
         IN IF LE(Q(0), diff)
            THEN [gains |-> Add(prev.gains, diff), losses |-> prev.losses]
            ELSE [gains |-> prev.gains, losses |-> RsiSeedLoss(prev.losses, diff)]

\* avgGain and avgLoss after the iterations period+1 .. i of the second loop
RECURSIVE RsiSmooth(_, _, _)
RsiSmooth(d, period, i) ==
    IF i <= period
    THEN LET seed == RsiSeed(d, period)
         IN [avgGain |-> Div(seed.gains, Q(period)),
             avgLoss |-> Div(seed.losses, Q(period))]
    ELSE LET prev == RsiSmooth(d, period, i - 1)
             diff == Diff(d, i)
             currentGain == IF LE(Q(0), diff) THEN diff ELSE Q(0)
             currentLoss == IF LT(diff, Q(0)) THEN MathAbs(diff) ELSE Q(0)
         IN [avgGain |-> Div(Add(Mul(prev.avgGain, Q(period - 1)), currentGain), Q(period)),
             avgLoss |-> Div(Add(Mul(prev.avgLoss, Q(period - 1)), currentLoss), Q(period))]

\* lines 194-216: the computation once the length guard has passed
RsiCompute(d, period) ==
    LET a == RsiSmooth(d, period, Len(d) - 1)
    IN IF EQ(a.avgLoss, Q(0)) THEN RetNum(Q(100))
       ELSE LET rs == Div(a.avgGain, a.avgLoss)
            IN RetNum(Sub(Q(100), Div(Q(100), Add(Q(1), rs))))

\* mutant: the guard lets a series of exactly `period` samples through, and
\* the seeding loop then reads data[period], which is undefined
rsi_GuardLT(d, period) ==
    IF Len(d) < period THEN RetNum(Q(50))
    ELSE IF Len(d) = period THEN RetNum(NaN)
    ELSE RsiCompute(d, period)

rsi(d, period) ==
    IF Len(d) <= period THEN RetNum(Q(50))
    ELSE RsiCompute(d, period)

rsiReads(d, period) ==
    IF Len(d) <= period THEN {}
    ELSE UNION {{i - 1, i} : i \in 1 .. (Len(d) - 1)}

(***************************************************************************)
(* Fleon.Market.getRSI                                                     *)
(***************************************************************************)
RECURSIVE GetRSISums(_, _, _)
GetRSISums(d, from, i) ==
    IF i < from THEN [gains |-> Q(0), losses |-> Q(0)]
    ELSE LET prev == GetRSISums(d, from, i - 1)
             diff == Diff(d, i)
         IN IF LE(Q(0), diff)
            THEN [gains |-> Add(prev.gains, diff), losses |-> prev.losses]
            ELSE [gains |-> prev.gains, losses |-> Sub(prev.losses, diff)]

getRSI(d, period) ==
    IF Len(d) <= period THEN RetNum(Q(50))
    ELSE LET s == GetRSISums(d, Len(d) - period, Len(d) - 1)
             rs == Div(Div(s.gains, Q(period)), OrOne(Div(s.losses, Q(period))))
         IN RetNum(Sub(Q(100), Div(Q(100), Add(Q(1), rs))))

getRSIReads(d, period) ==
    IF Len(d) <= period THEN {}
    ELSE UNION {{i - 1, i} : i \in (Len(d) - period) .. (Len(d) - 1)}

(***************************************************************************)
(* Math.sqrt, exactly: a + b*sqrt(f) with f a squarefree integer (f = 1    *)
(* and b = 0 when there is no irrational part).                            *)
(***************************************************************************)
SurdNaN == [a |-> NaN, b |-> Q(0), f |-> 1]
SurdOf(q) == [a |-> q, b |-> Q(0), f |-> 1]
SurdIsNaN(s) == IsNaN(s.a)

\* the largest k with k*k dividing n (n >= 1)
SquarePart(n) ==
    CHOOSE k \in 1 .. n :
        /\ n % (k * k) = 0
        /\ \A j \in (k + 1) .. n : n % (j * j) # 0

MathSqrt(v) ==
    IF IsNaN(v) \/ v[1] < 0 THEN SurdNaN
    ELSE IF ~IsFinite(v) \/ v[1] = 0 THEN SurdOf(v)
    ELSE LET kn == SquarePart(v[1])
             kd == SquarePart(v[2])
             fn0 == v[1] \div (kn * kn)
             fd0 == v[2] \div (kd * kd)
         IN IF fn0 * fd0 = 1
            THEN SurdOf(Norm(kn, kd))
            ELSE [a |-> Q(0), b |-> Norm(kn, kd * fd0), f |-> fn0 * fd0]

\* s * q for a surd s and a Number q
SurdMul(s, q) ==
    LET a == Mul(s.a, q)
        b == Mul(s.b, q)
    IN IF IsNaN(a) \/ IsNaN(b) THEN SurdNaN
       ELSE IF b = Q(0) THEN SurdOf(a)
       ELSE [a |-> a, b |-> b, f |-> s.f]

\* q + s and q - s for a Number q and a surd s
SurdAdd(q, s) ==
    LET a == Add(q, s.a)
    IN IF IsNaN(a) THEN SurdNaN ELSE [s EXCEPT !.a = a]

SurdSub(q, s) == SurdAdd(q, SurdMul(s, Q(-1)))

\* x <= y for surds over the same radicand (NaN compares false)
SurdLE(x, y) ==
    IF SurdIsNaN(x) \/ SurdIsNaN(y) THEN FALSE
    ELSE LET c == Sub(y.a, x.a)
             e == Sub(x.b, y.b)
             f == IF x.b # Q(0) THEN x.f ELSE y.f
             e2f == Mul(Mul(e, e), Q(f))
             c2 == Mul(c, c)
         IN IF LE(e, Q(0)) /\ LE(Q(0), c) THEN TRUE
            ELSE IF LT(Q(0), e) /\ LT(c, Q(0)) THEN FALSE
            ELSE IF LT(Q(0), e) THEN LE(e2f, c2)
            ELSE LE(c2, e2f)

(***************************************************************************)
(* FleonExtended.Indicators.bollingerBands                                 *)
(***************************************************************************)
\* mutant: the deviation is taken over the whole series
BandWindow_Whole(d, period, idx) == d

\* const window = data.slice(idx, idx + period)
BandWindow(d, period, idx) == Slice(d, idx, idx + period)

\* window.reduce((a, b) => a + Math.pow(b - sma, 2), 0)
RECURSIVE ReduceSqDev(_, _)
ReduceSqDev(w, m) ==
    IF Len(w) = 0 THEN Q(0)
    ELSE LET dev == Sub(Q(w[Len(w)]), m)
         IN Add(ReduceSqDev(SubSeq(w, 1, Len(w) - 1), m), Mul(dev, dev))

BandUpper(m, sd, stdDevMult) == SurdAdd(m, SurdMul(sd, Q(stdDevMult)))

\* mutant: the lower band adds the deviation
BandLower_Plus(m, sd, stdDevMult) == SurdAdd(m, SurdMul(sd, Q(stdDevMult)))

BandLower(m, sd, stdDevMult) == SurdSub(m, SurdMul(sd, Q(stdDevMult)))

Band(d, period, stdDevMult, m, idx) ==
    LET window == BandWindow(d, period, idx)
        variance == Div(ReduceSqDev(window, m), Q(period))
        sd == MathSqrt(variance)
    IN [middle |-> m,
        upper |-> BandUpper(m, sd, stdDevMult),
        lower |-> BandLower(m, sd, stdDevMult)]

bollingerBands(d, period, stdDevMult) ==
    LET smaArr == sma(d, period)
    IN IF smaArr.kind = "null" THEN RetNull
       ELSE RetBands([k \in 1 .. Len(smaArr.val) |->
                        Band(d, period, stdDevMult, smaArr.val[k], k - 1)])

(***************************************************************************)
(* FleonTokenomics.Governance.calculateGini                                *)
(***************************************************************************)
\* sumNom and sumDen after the iterations 1 .. i
RECURSIVE GiniSums(_, _, _)
GiniSums(sorted, n, i) ==
    IF i = 0 THEN [sumNom |-> Q(0), sumDen |-> Q(0)]
    ELSE LET prev == GiniSums(sorted, n, i - 1)
         IN [sumNom |-> Add(prev.sumNom, Mul(Q(n + 1 - i), Q(sorted[i]))),
             sumDen |-> Add(prev.sumDen, Q(sorted[i]))]

\* mutant: the copy is not sorted
GiniSorted_NoSort(wealthArr) == wealthArr

\* const sorted = [...wealthArr].sort((a, b) => a - b)
GiniSorted(wealthArr) == SortAsc(wealthArr)

\* the caller's array once the call has returned: the sort ran on a copy
GiniCallerArray(wealthArr) == wealthArr

calculateGini(wealthArr) ==
    LET n == Len(wealthArr)
    IN IF n < 2 THEN RetNum(Q(0))
       ELSE LET s == GiniSums(GiniSorted(wealthArr), n, n)
            IN RetNum(Div(Sub(Q(n + 1), Mul(Q(2), Div(s.sumNom, s.sumDen))), Q(n)))

calculateGiniReads(wealthArr) ==
    IF Len(wealthArr) < 2 THEN {} ELSE 0 .. (Len(wealthArr) - 1)

(***************************************************************************)
(* FleonTokenomics._getPercentile                                          *)
(***************************************************************************)
RetUndefined == [kind |-> "undefined", val |-> <<>>]

\* arr[i] for a 0-based index i: undefined outside the array
At(arr, i) == IF i \in 0 .. (Len(arr) - 1) THEN RetNum(Q(arr[i + 1])) ELSE RetUndefined

\* mutant: the copy is not sorted
PercentileSorted_NoSort(arr) == arr

\* const sorted = [...arr].sort((a, b) => a - b)
PercentileSorted(arr) == SortAsc(arr)

\* the caller's array once the call has returned: the sort ran on a copy
PercentileCallerArray(arr) == arr

\* sorted[base] + rest * (sorted[base + 1] - sorted[base])
Interpolate(lo, hi, rest) == Add(lo, Mul(rest, Sub(hi, lo)))

getPercentile(arr, p) ==
    LET sorted == PercentileSorted(arr)
        pos == Mul(Q(Len(sorted) - 1), p)
        base == MathFloor(pos)[1]
        rest == Sub(pos, Q(base))
    IN IF At(sorted, base + 1).kind # "undefined"
       THEN IF At(sorted, base).kind # "undefined"
            THEN RetNum(Interpolate(At(sorted, base).val, At(sorted, base + 1).val, rest))
            ELSE RetNum(NaN)
       ELSE At(sorted, base)

Ps == {Norm(k, PSteps) : k \in 0 .. PSteps}

(***************************************************************************)
(* FleonAdvanced.Forecasting.linearPredict                                 *)
(***************************************************************************)
RetPredict(v, c) == [kind |-> "predict", val |-> [nextValue |-> v, confidence |-> c]]

\* the series handed to linearPredict: the caller's samples in units of 1/den
Dens == {1, 10}
SeriesOf(d, den) == [i \in 1 .. Len(d) |-> Norm(d[i], den)]

\* sumX, sumY, sumXY, sumXX after the iterations 0 .. i-1
RECURSIVE LinearSums(_, _)
LinearSums(series, i) ==
    IF i = 0 THEN [sumX |-> Q(0), sumY |-> Q(0), sumXY |-> Q(0), sumXX |-> Q(0)]
    ELSE LET prev == LinearSums(series, i - 1)
             x == Q(i - 1)
             y == series[i]
         IN [sumX |-> Add(prev.sumX, x),
             sumY |-> Add(prev.sumY, y),
             sumXY |-> Add(prev.sumXY, Mul(x, y)),
             sumXX |-> Add(prev.sumXX, Mul(x, x))]

\* the 0.1 of `Math.abs(slope) > 0.1`
TrendThreshold == Norm(1, 10)

LinearConfidence(slope) ==
    IF LT(TrendThreshold, MathAbs(slope)) THEN "HIGH_TREND" ELSE "STAGNANT"

\* mutant: the line is evaluated at the last index instead of one step beyond
LinearNextValue_Last(slope, intercept, n) == Add(Mul(slope, Q(n - 1)), intercept)

\* nextValue: slope * n + intercept
LinearNextValue(slope, intercept, n) == Add(Mul(slope, Q(n)), intercept)

linearPredict(series) ==
    LET n == Len(series)
        s == LinearSums(series, n)
        slope == Div(Sub(Mul(Q(n), s.sumXY), Mul(s.sumX, s.sumY)),
                     Sub(Mul(Q(n), s.sumXX), Mul(s.sumX, s.sumX)))
        intercept == Div(Sub(s.sumY, Mul(slope, s.sumX)), Q(n))
    IN RetPredict(LinearNextValue(slope, intercept, n), LinearConfidence(slope))

(***************************************************************************)
(* Math.random and Math.exp.                                               *)
(*                                                                         *)
(* Math.random() reads the engine's global generator: each draw is any     *)
(* value of [0, 1), here any element of Us.  Math.exp is kept symbolic: a  *)
(* value c * exp(e), e of the form a + b*sqrt(f), is the record [c, e].    *)
(***************************************************************************)
Us == {Q(0), Norm(3, 4)}

ExpOf(q) == [c |-> q, e |-> SurdOf(Q(0))]

\* x + y for values of the form a + b*sqrt(f) over the same radicand
SurdPlus(x, y) ==
    LET a == Add(x.a, y.a)
        b == Add(x.b, y.b)
    IN IF IsNaN(a) \/ IsNaN(b) THEN SurdNaN
       ELSE IF b = Q(0) THEN SurdOf(a)
       ELSE [a |-> a, b |-> b, f |-> IF x.b # Q(0) THEN x.f ELSE y.f]

MathExp(x) ==
    IF SurdIsNaN(x) THEN ExpOf(NaN)
    ELSE IF x.a = PosInf THEN ExpOf(PosInf)
    ELSE IF x.a = NegInf THEN ExpOf(Q(0))
    ELSE [c |-> Q(1), e |-> x]

\* v * w for values of the form c * exp(e)
ExpMul(v, w) ==
    LET c == Mul(v.c, w.c)
    IN IF IsNaN(c) \/ ~IsFinite(c) \/ c = Q(0) THEN ExpOf(c)
       ELSE [c |-> c, e |-> SurdPlus(v.e, w.e)]

(***************************************************************************)
(* FleonElite.Stochastics.gbmPath                                          *)
(***************************************************************************)
RetPath(s) == [kind |-> "path", val |-> s]

\* const dt = T / steps
GbmDt(T, steps) == Div(Q(T), Q(steps))

\* drift + diffusion for the draw u = Math.random()
GbmExponent(mu, sigma, T, steps, u) ==
    LET dt == GbmDt(T, steps)
        drift == Mul(Sub(Q(mu), Mul(Mul(Norm(1, 2), Q(sigma)), Q(sigma))), dt)
        diffusion == SurdMul(SurdMul(MathSqrt(dt), Q(sigma)), Sub(Mul(u, Q(2)), Q(1)))
    IN SurdAdd(drift, diffusion)

\* mutant: the loop runs while i <= steps
GbmIterations_Inclusive(steps) == steps + 1

\* for (let i = 0; i < steps; i++)
GbmIterations(steps) == steps

\* path after the first i iterations; draws[k] is the k-th Math.random()
RECURSIVE GbmPrefix(_, _, _, _, _, _, _)
GbmPrefix(S0, mu, sigma, T, steps, draws, i) ==
    IF i = 0 THEN <<ExpOf(Q(S0))>>
    ELSE LET path == GbmPrefix(S0, mu, sigma, T, steps, draws, i - 1)
             currentS == path[Len(path)]
         IN Append(path, ExpMul(currentS, MathExp(GbmExponent(mu, sigma, T, steps, draws[i]))))

gbmPath(S0, mu, sigma, T, steps, draws) ==
    RetPath(GbmPrefix(S0, mu, sigma, T, steps, draws, GbmIterations(steps)))

GbmS0s == {-1, 0, 2}
GbmMus == {0, 1}
GbmSigmas == {0, 1}
GbmTs == {0, 1, 2}
GbmDraws == [1 .. (MaxSteps + 1) -> Us]

(***************************************************************************)
(* FleonAdvanced.MathModels.runMonteCarlo                                  *)
(***************************************************************************)
\* price after the first d days of simulation i (1-based); the draws are
\* consumed in order, `days` of them per simulation
RECURSIVE McPrice(_, _, _, _, _, _)
McPrice(startPrice, days, volatility, draws, i, d) ==
    IF d = 0 THEN Q(startPrice)
    ELSE LET u == draws[(i - 1) * days + d]
             change == Add(Q(1), Mul(Mul(Sub(u, Norm(1, 2)), Q(2)), volatility))
         IN Mul(McPrice(startPrice, days, volatility, draws, i, d - 1), change)

\* endPrices.reduce((a, b) => a + b) over Numbers, for a non-empty array
RECURSIVE ReduceAdd(_)
ReduceAdd(s) ==
    IF Len(s) = 1 THEN s[1]
    ELSE Add(ReduceAdd(SubSeq(s, 1, Len(s) - 1)), s[Len(s)])

\* Math.max(...endPrices) and Math.min(...endPrices)
MathMax(s) == CHOOSE x \in {s[i] : i \in 1 .. Len(s)} : \A i \in 1 .. Len(s) : LE(s[i], x)
MathMin(s) == CHOOSE x \in {s[i] : i \in 1 .. Len(s)} : \A i \in 1 .. Len(s) : LE(x, s[i])

runMonteCarlo(startPrice, days, volatility, simulations, draws) ==
    LET endPrices == [i \in 1 .. simulations |->
                        McPrice(startPrice, days, volatility, draws, i, days)]
        losing == Cardinality({i \in 1 .. simulations : LT(endPrices[i], Q(startPrice))})
    IN [kind |-> "stats",
        val |-> [averageEndPrice |-> Div(ReduceAdd(endPrices), Q(simulations)),
                 maxPotential |-> MathMax(endPrices),
                 minPotential |-> MathMin(endPrices),
                 probabilityOfLoss |->
                     <<Mul(Div(Q(losing), Q(simulations)), Q(100)), "%">>]]

McStartPrices == {1, 2}
McVolatilities == {Q(0), Norm(1, 2)}
McSimulations == {1, 2}
McDraws == [1 .. (2 * MaxSteps) -> Us]

(***************************************************************************)
(* FleonElite.GameTheory.calculateVickreyWinner                            *)
(***************************************************************************)
\* the caller's bids: bidder i offers the i-th amount of its array
BidsOf(d) == [i \in 1 .. Len(d) |-> [user |-> i, amount |-> d[i]]]

\* the result of sort((a, b) => b.amount - a.amount): descending by amount,
\* equal amounts in their original order
RECURSIVE InsertBidDesc(_, _)
InsertBidDesc(s, b) ==
    IF Len(s) = 0 THEN <<b>>
    ELSE IF b.amount > s[1].amount THEN <<b>> \o s
    ELSE <<s[1]>> \o InsertBidDesc(Tail(s), b)

RECURSIVE SortBidsDesc(_)
SortBidsDesc(b) ==
    IF Len(b) = 0 THEN <<>>
    ELSE InsertBidDesc(SortBidsDesc(SubSeq(b, 1, Len(b) - 1)), b[Len(b)])

\* the caller's array once the call has returned: bids.sort(...) sorts the
\* argument itself, after the length guard
VickreyCallerArray(b) == IF Len(b) < 2 THEN b ELSE SortBidsDesc(b)

calculateVickreyWinner(b) ==
    IF Len(b) < 2 THEN RetNull
    ELSE LET sorted == SortBidsDesc(b)
         IN [kind |-> "auction",
             val |-> [winner |-> sorted[1].user,
                      priceToPay |-> Q(sorted[2].amount),
                      savings |-> Sub(Q(sorted[1].amount), Q(sorted[2].amount))]]

(***************************************************************************)
(* FleonAdvanced.Security.simulateMining                                   *)
(*                                                                         *)
(* Strings are sequences of character codes; the 32-bit hash h is kept as  *)
(* its two 16-bit halves <<hi, lo>> (two's complement), the rendered hash  *)
(* as a sequence of hexadecimal digit characters.                          *)
(***************************************************************************)
Half == 65536

\* String(nonce): the decimal digits of a non-negative integer, as codes
RECURSIVE DecimalCodes(_)
DecimalCodes(n) ==
    IF n < 10 THEN <<48 + n>>
    ELSE Append(DecimalCodes(n \div 10), 48 + (n % 10))

\* h = ((h << 5) - h) + c; h |= 0
HashStep(h, c) ==
    LET lo == 31 * h[2] + c
        hi == 31 * h[1] + (lo \div Half)
    IN <<hi % Half, lo % Half>>

\* h after the characters 1 .. i of str
RECURSIVE HashLoop(_, _)
HashLoop(str, i) ==
    IF i = 0 THEN <<0, 0>>
    ELSE HashStep(HashLoop(str, i - 1), str[i])

\* Math.abs(h) of the signed 32-bit h, as halves of the magnitude
HashAbs(h) ==
    IF h[1] < Half \div 2 THEN h
    ELSE <<(Half - 1 - h[1] + (IF h[2] = 0 THEN 1 ELSE 0)) % Half, (Half - h[2]) % Half>>

HexDigit(d) == SubSeq(<<"0", "1", "2", "3", "4", "5", "6", "7",
                        "8", "9", "a", "b", "c", "d", "e", "f">>, d + 1, d + 1)

\* n.toString(16) for 0 <= n < 65536: no leading zeros
RECURSIVE Hex(_)
Hex(n) == IF n < 16 THEN HexDigit(n) ELSE Hex(n \div 16) \o HexDigit(n % 16)

\* the four hexadecimal digits of a low half below a non-zero high half
Hex4(n) == HexDigit(n \div 4096) \o HexDigit((n \div 256) % 16)
              \o HexDigit((n \div 16) % 16) \o HexDigit(n % 16)

\* Math.abs(h).toString(16)
HashToString(m) == IF m[1] = 0 THEN Hex(m[2]) ELSE Hex(m[1]) \o Hex4(m[2])

getHash(str) == HashToString(HashAbs(HashLoop(str, Len(str))))

\* '0'.repeat(difficulty)
MineTarget(difficulty) == [i \in 1 .. difficulty |-> "0"]

\* hash.startsWith(target)
StartsWith(hash, target) ==
    /\ Len(target) <= Len(hash)
    /\ SubSeq(hash, 1, Len(target)) = target

\* the strings mined: "", "a", "ab"
MineStrings == {<<>>, <<97>>, <<97, 98>>}

\* (Date.now() - start), in ms
MineElapsed == {0, 1}

(***************************************************************************)
(* The caller: builds an array and calls the library on it.                *)
(***************************************************************************)
NoArgs == [data |-> <<>>, period |-> 0, mult |-> 0, p |-> Q(0)]

Scenarios == {<<1, 2, 3, 4, 5>>, <<10, 10, 10, 10>>, <<0, 0, 0, 100>>}

\* simulateMining is inside its while loop: the caller is blocked
Mining == fn = "simulateMining" /\ ret.kind = "none"

Init ==
    /\ data = <<>>
    /\ fn = "none"
    /\ args = NoArgs
    /\ ret = RetNone
    /\ reads = {}
    /\ prevRet = RetNone
    /\ bids = <<>>
    /\ locals = <<>>

Push ==
    /\ ~Mining
    /\ Len(data) < MaxLen
    /\ \E v \in Values : data' = Append(data, v)
    /\ fn' = "none"
    /\ args' = NoArgs
    /\ ret' = RetNone
    /\ reads' = {}
    /\ prevRet' = RetNone
    /\ locals' = <<>>
    /\ bids' = <<>>

LoadScenario ==
    /\ ~Mining
    /\ \E s \in Scenarios : data' = s
    /\ fn' = "none"
    /\ args' = NoArgs
    /\ ret' = RetNone
    /\ reads' = {}
    /\ prevRet' = RetNone
    /\ locals' = <<>>
    /\ bids' = <<>>

\* the caller is done with the last result and keeps its array
Discard ==
    /\ fn # "none"
    /\ ~Mining
    /\ fn' = "none"
    /\ args' = NoArgs
    /\ ret' = RetNone
    /\ reads' = {}
    /\ prevRet' = RetNone
    /\ locals' = <<>>
    /\ bids' = <<>>
    /\ UNCHANGED data

CallSma ==
    \E period \in Periods :
        /\ fn = "none"
        /\ fn' = "sma"
        /\ args' = [NoArgs EXCEPT !.data = data, !.period = period]
        /\ ret' = sma(data, period)
        /\ reads' = smaReads(data, period)
        /\ prevRet' = RetNone
        /\ locals' = <<>>
        /\ bids' = <<>>
        /\ UNCHANGED data

CallRsi ==
    \E period \in Periods :
        /\ fn = "none"
        /\ fn' = "rsi"
        /\ args' = [NoArgs EXCEPT !.data = data, !.period = period]
        /\ ret' = rsi(data, period)
        /\ reads' = rsiReads(data, period)
        /\ prevRet' = RetNone
        /\ locals' = <<>>
        /\ bids' = <<>>
        /\ UNCHANGED data

CallGetRSI ==
    \E period \in Periods :
        /\ fn = "none"
        /\ fn' = "getRSI"
        /\ args' = [NoArgs EXCEPT !.data = data, !.period = period]
        /\ ret' = getRSI(data, period)
        /\ reads' = getRSIReads(data, period)
        /\ prevRet' = RetNone
        /\ locals' = <<>>
        /\ bids' = <<>>
        /\ UNCHANGED data

CallBollingerBands ==
    \E period \in Periods, stdDevMult \in Mults :
        /\ fn = "none"
        /\ fn' = "bollingerBands"
        /\ args' = [NoArgs EXCEPT !.data = data, !.period = period, !.mult = stdDevMult]
        /\ ret' = bollingerBands(data, period, stdDevMult)
        /\ reads' = smaReads(data, period)
        /\ prevRet' = RetNone
        /\ locals' = <<>>
        /\ bids' = <<>>
        /\ UNCHANGED data

CallCalculateGini ==
    /\ fn = "none"
    /\ fn' = "calculateGini"
    /\ args' = [NoArgs EXCEPT !.data = data]
    /\ ret' = calculateGini(data)
    /\ reads' = calculateGiniReads(data)
    /\ prevRet' = RetNone
    /\ locals' = <<>>
    /\ bids' = <<>>
    /\ data' = GiniCallerArray(data)

CallGetPercentile ==
    \E p \in Ps :
        /\ fn = "none"
        /\ fn' = "getPercentile"
        /\ args' = [NoArgs EXCEPT !.data = data, !.p = p]
        /\ ret' = getPercentile(data, p)
        /\ reads' = 0 .. (Len(data) - 1)
        /\ prevRet' = RetNone
        /\ locals' = <<>>
        /\ bids' = <<>>
        /\ data' = PercentileCallerArray(data)

CallLinearPredict ==
    \E den \in Dens :
        /\ fn = "none"
        /\ fn' = "linearPredict"
        /\ args' = [data |-> data, den |-> den, series |-> SeriesOf(data, den)]
        /\ ret' = linearPredict(SeriesOf(data, den))
        /\ reads' = 0 .. (Len(data) - 1)
        /\ prevRet' = RetNone
        /\ locals' = <<>>
        /\ bids' = <<>>
        /\ UNCHANGED data

\* the stochastic routines take no array: they are called on the empty one
CallGbmPath ==
    \E S0 \in GbmS0s, mu \in GbmMus, sigma \in GbmSigmas, T \in GbmTs,
       steps \in 0 .. MaxSteps, draws \in GbmDraws :
        /\ fn = "none"
        /\ data = <<>>
        /\ fn' = "gbmPath"
        /\ args' = [S0 |-> S0, mu |-> mu, sigma |-> sigma, T |-> T, steps |-> steps]
        /\ ret' = gbmPath(S0, mu, sigma, T, steps, draws)
        /\ reads' = {}
        /\ prevRet' = RetNone
        /\ locals' = <<>>
        /\ bids' = <<>>
        /\ UNCHANGED data

\* the caller repeats the call with identical arguments
CallGbmPathAgain ==
    \E draws \in GbmDraws :
        /\ fn = "gbmPath"
        /\ prevRet.kind = "none"
        /\ ret' = gbmPath(args.S0, args.mu, args.sigma, args.T, args.steps, draws)
        /\ prevRet' = ret
        /\ UNCHANGED <<data, fn, args, reads, bids, locals>>

CallRunMonteCarlo ==
    \E startPrice \in McStartPrices, days \in 0 .. MaxSteps,
       volatility \in McVolatilities, simulations \in McSimulations,
       draws \in McDraws :
        /\ fn = "none"
        /\ data = <<>>
        /\ fn' = "runMonteCarlo"
        /\ args' = [startPrice |-> startPrice, days |-> days,
                    volatility |-> volatility, simulations |-> simulations]
        /\ ret' = runMonteCarlo(startPrice, days, volatility, simulations, draws)
        /\ reads' = {}
        /\ prevRet' = RetNone
        /\ locals' = <<>>
        /\ bids' = <<>>
        /\ UNCHANGED data

\* the caller repeats the call with identical arguments
CallRunMonteCarloAgain ==
    \E draws \in McDraws :
        /\ fn = "runMonteCarlo"
        /\ prevRet.kind = "none"
        /\ ret' = runMonteCarlo(args.startPrice, args.days, args.volatility,
                                args.simulations, draws)
        /\ prevRet' = ret
        /\ UNCHANGED <<data, fn, args, reads, bids, locals>>

CallCalculateVickreyWinner ==
    /\ fn = "none"
    /\ fn' = "calculateVickreyWinner"
    /\ args' = [bids |-> BidsOf(data)]
    /\ ret' = calculateVickreyWinner(BidsOf(data))
    /\ reads' = 0 .. (Len(data) - 1)
    /\ prevRet' = RetNone
    /\ locals' = <<>>
    /\ bids' = VickreyCallerArray(BidsOf(data))
    /\ UNCHANGED data

\* lines 585-588: the call enters with nonce = 0 and hash = ""
CallSimulateMining ==
    \E str \in MineStrings, difficulty \in 0 .. MaxDifficulty :
        /\ fn = "none"
        /\ data = <<>>
        /\ fn' = "simulateMining"
        /\ args' = [data |-> str, difficulty |-> difficulty]
        /\ locals' = [nonce |-> 0, hash |-> <<>>]
        /\ ret' = RetNone
        /\ reads' = {}
        /\ prevRet' = RetNone
        /\ bids' = <<>>
        /\ UNCHANGED data

\* lines 600-603: one iteration of the while loop
MineStep ==
    /\ Mining
    /\ ~StartsWith(locals.hash, MineTarget(args.difficulty))
    /\ locals.nonce < MaxNonce
    /\ locals' = [nonce |-> locals.nonce + 1,
                  hash |-> getHash(args.data \o DecimalCodes(locals.nonce + 1))]
    /\ UNCHANGED <<data, fn, args, ret, reads, prevRet, bids>>

\* line 605: the loop condition is false, the call returns
MineReturn ==
    \E ms \in MineElapsed :
        /\ Mining
        /\ StartsWith(locals.hash, MineTarget(args.difficulty))
        /\ ret' = [kind |-> "mined",
                   val |-> [nonce |-> locals.nonce, hash |-> locals.hash,
                            timeTaken |-> <<ms, "ms">>]]
        /\ UNCHANGED <<data, fn, args, reads, prevRet, bids, locals>>

Next ==
    \/ Push
    \/ LoadScenario
    \/ Discard
    \/ CallSma
    \/ CallRsi
    \/ CallGetRSI
    \/ CallBollingerBands
    \/ CallCalculateGini
    \/ CallGetPercentile
    \/ CallLinearPredict
    \/ CallGbmPath
    \/ CallGbmPathAgain
    \/ CallRunMonteCarlo
    \/ CallRunMonteCarloAgain
    \/ CallCalculateVickreyWinner
    \/ CallSimulateMining
    \/ MineStep
    \/ MineReturn

Spec == Init /\ [][Next]_vars

(***************************************************************************)
(* Properties.                                                             *)
(***************************************************************************)
InRsiCall == fn = "rsi"
InSmaCall == fn = "sma"
InBandsCall == fn = "bollingerBands"
InGiniCall == fn = "calculateGini"
InPercentileCall == fn = "getPercentile"

\* C1: for every series and every period >= 1, Indicators.rsi returns a
\* value in the closed interval [0, 100].
C1_RsiBounded ==
    (InRsiCall /\ args.period >= 1) =>
        /\ ret.kind = "num"
        /\ LE(Q(0), ret.val)
        /\ LE(ret.val, Q(100))

\* C2: when len(S) <= period, both Indicators.rsi and Market.getRSI return
\* exactly 50 and read no element of S.
C2_ShortSeriesNeutral ==
    (fn \in {"rsi", "getRSI"} /\ Len(args.data) <= args.period) =>
        /\ ret = RetNum(Q(50))
        /\ reads = {}

C2_Witness ==
    /\ InRsiCall
    /\ Len(args.data) = args.period
    /\ args.period >= 2
    /\ ret = RetNum(Q(50))

\* C3: for 1 <= period <= len(S), Indicators.sma returns exactly
\* len(S) - period + 1 elements, the k-th (0-based) being the arithmetic mean
\* of S[k .. k+period-1]; sma([1,2,3,4,5], 3) is [2, 3, 4].
C3_SmaWindowMeans ==
    LET S == args.data
        period == args.period
        RECURSIVE Total(_)
        Total(w) == IF w = <<>> THEN 0 ELSE Head(w) + Total(Tail(w))
    IN (InSmaCall /\ 1 <= period /\ period <= Len(S)) =>
        /\ ret.kind = "seq"
        /\ Len(ret.val) = Len(S) - period + 1
        /\ \A k \in 0 .. (Len(S) - period) :
              EQ(Mul(ret.val[k + 1], Q(period)),
                 Q(Total(SubSeq(S, k + 1, k + period))))
        /\ (S = <<1, 2, 3, 4, 5>> /\ period = 3) => ret.val = <<Q(2), Q(3), Q(4)>>

C3_Witness ==
    /\ InSmaCall
    /\ args.data = <<1, 2, 3, 4, 5>>
    /\ args.period = 3
    /\ ret = RetSeq(<<Q(2), Q(3), Q(4)>>)

\* C4: Indicators.sma returns null exactly when len(S) < period (otherwise a
\* sequence); bollingerBands returns null exactly when sma does, and
\* otherwise one band per SMA output position.
C4_NullSentinel ==
    /\ InSmaCall =>
          /\ ret.kind \in {"null", "seq"}
          /\ ret.kind = "null" <=> Len(args.data) < args.period
    /\ InBandsCall =>
          LET s == sma(args.data, args.period)
          IN /\ ret.kind \in {"null", "bands"}
             /\ ret.kind = "null" <=> s.kind = "null"
             /\ ret.kind = "bands" => Len(ret.val) = Len(s.val)

C4_Witness ==
    /\ InBandsCall
    /\ Len(args.data) >= 1
    /\ Len(args.data) < args.period
    /\ ret = RetNull

\* C5 (as stated): every band returned by bollingerBands has
\* lower <= middle <= upper, for every period and every multiplier,
\* zero and negative multipliers included.
C5_BandsOrderedAnyMult ==
    (InBandsCall /\ ret.kind = "bands") =>
        \A k \in 1 .. Len(ret.val) :
            /\ SurdLE(ret.val[k].lower, SurdOf(ret.val[k].middle))
            /\ SurdLE(SurdOf(ret.val[k].middle), ret.val[k].upper)

\* C5 (amended): for period >= 1 and stdDevMult >= 0, every band returned by
\* bollingerBands has lower <= middle <= upper.
C5_BandsOrdered ==
    (InBandsCall /\ ret.kind = "bands" /\ args.period >= 1 /\ args.mult >= 0) =>
        \A k \in 1 .. Len(ret.val) :
            /\ SurdLE(ret.val[k].lower, SurdOf(ret.val[k].middle))
            /\ SurdLE(SurdOf(ret.val[k].middle), ret.val[k].upper)

\* a band of positive width under a positive multiplier
C5_Witness ==
    /\ InBandsCall
    /\ ret.kind = "bands"
    /\ args.period >= 2
    /\ args.mult > 0
    /\ \E k \in 1 .. Len(ret.val) :
          /\ ret.val[k].lower # SurdOf(ret.val[k].middle)
          /\ SurdLE(ret.val[k].lower, SurdOf(ret.val[k].middle))
          /\ SurdLE(SurdOf(ret.val[k].middle), ret.val[k].upper)

\* C6: band i has middle = element i of sma(S, period), and
\* upper - middle = middle - lower = m * sd_i, where sd_i is the population
\* standard deviation of exactly the window S[i .. i+period-1].
C6_BandsUseOwnWindow ==
    LET S == args.data
        period == args.period
        RECURSIVE Total(_)
        Total(w) == IF w = <<>> THEN 0 ELSE Head(w) + Total(Tail(w))
        RECURSIVE TotalSq(_)
        TotalSq(w) == IF w = <<>> THEN 0 ELSE Head(w) * Head(w) + TotalSq(Tail(w))
        \* population variance as E[x^2] - E[x]^2
        Variance(w) ==
            LET mean == Div(Q(Total(w)), Q(Len(w)))
            IN Sub(Div(Q(TotalSq(w)), Q(Len(w))), Mul(mean, mean))
        Sd(i) == MathSqrt(Variance(SubSeq(S, i + 1, i + period)))
    IN (InBandsCall /\ ret.kind = "bands") =>
        \A i \in 0 .. (Len(ret.val) - 1) :
            LET b == ret.val[i + 1]
                msd == SurdMul(Sd(i), Q(args.mult))
            IN /\ b.middle = sma(S, period).val[i + 1]
               /\ b.upper = SurdAdd(b.middle, msd)
               /\ b.lower = SurdSub(b.middle, msd)

\* several bands whose windows have different deviations
C6_Witness ==
    /\ InBandsCall
    /\ ret.kind = "bands"
    /\ args.mult # 0
    /\ Len(ret.val) >= 2
    /\ Sub(ret.val[1].upper.a, ret.val[1].middle) = Q(0)
    /\ \/ ret.val[1].upper.f # ret.val[2].upper.f
       \/ ret.val[1].upper.b # ret.val[2].upper.b

\* C7: calculateGini returns exactly 0 (not NaN) whenever len(W) < 2 or
\* every entry of W is zero.
C7_GiniZeroGuard ==
    (InGiniCall /\ (Len(args.data) < 2
                     \/ \A i \in 1 .. Len(args.data) : args.data[i] = 0)) =>
        ret = RetNum(Q(0))

\* C8: for non-negative wealth values calculateGini lies in [0, 1], and for
\* n-1 zeros and one positive value it equals (n-1)/n.
C8_GiniRange ==
    LET W == args.data
        n == Len(W)
    IN (InGiniCall /\ \A i \in 1 .. n : W[i] >= 0) =>
        /\ ret.kind = "num"
        /\ LE(Q(0), ret.val)
        /\ LE(ret.val, Q(1))
        /\ (\E j \in 1 .. n : W[j] > 0 /\ \A i \in 1 .. n : i # j => W[i] = 0)
              => EQ(ret.val, Div(Q(n - 1), Q(n)))

\* C9: calculateGini of n >= 1 copies of a positive x is 0; the result does
\* not depend on the order of the entries; the caller's array is unchanged.
C9_GiniEqualAndOrder ==
    LET W == args.data
        n == Len(W)
        Perms == {f \in [1 .. n -> 1 .. n] :
                     \A i, j \in 1 .. n : f[i] = f[j] => i = j}
    IN InGiniCall =>
        /\ (n >= 1 /\ W[1] > 0 /\ \A i \in 1 .. n : W[i] = W[1])
              => ret = RetNum(Q(0))
        /\ \A f \in Perms : calculateGini([i \in 1 .. n |-> W[f[i]]]) = ret
        /\ data = W

\* an unsorted input of unequal entries
C9_Witness ==
    /\ InGiniCall
    /\ Len(args.data) >= 3
    /\ args.data[1] > args.data[2]
    /\ args.data[2] < args.data[3]
    /\ \A i \in 1 .. Len(args.data) : args.data[i] >= 0
    /\ ret.kind = "num"
    /\ LT(Q(0), ret.val)
    /\ LT(ret.val, Q(1))
    /\ data = args.data

\* C10: for a non-empty series, percentile(S, 0) = min(S), percentile(S, 1)
\* = max(S); for 0 < p < 1 the result is the linear interpolation between
\* the two sorted values bracketing rank (n-1)*p and lies between min(S) and
\* max(S); the caller's series is not reordered.
C10_Percentile ==
    LET S == args.data
        n == Len(S)
        p == args.p
        \* the k-th smallest entry (k in 1 .. n)
        Kth(k) == CHOOSE v \in {S[i] : i \in 1 .. n} :
                     /\ Cardinality({i \in 1 .. n : S[i] < v}) < k
                     /\ k <= Cardinality({i \in 1 .. n : S[i] <= v})
        pos == Mul(Q(n - 1), p)
        j == pos[1] \div pos[2]
        frac == Sub(pos, Q(j))
        lo == Q(Kth(j + 1))
        hi == Q(Kth(MinI(j + 2, n)))
    IN (InPercentileCall /\ n >= 1) =>
        /\ ret.kind = "num"
        /\ p = Q(0) => ret.val = Q(Kth(1))
        /\ p = Q(1) => ret.val = Q(Kth(n))
        /\ ret.val = Add(lo, Mul(frac, Sub(hi, lo)))
        /\ LE(Q(Kth(1)), ret.val)
        /\ LE(ret.val, Q(Kth(n)))
        /\ data = S

\* an interpolated value strictly inside an unsorted series
C10_Witness ==
    /\ InPercentileCall
    /\ Len(args.data) >= 3
    /\ args.data[1] > args.data[2]
    /\ LT(Q(0), args.p)
    /\ LT(args.p, Q(1))
    /\ ret.kind = "num"
    /\ ret.val[2] > 1
    /\ data = args.data

InLinearCall == fn = "linearPredict"

\* C11: on the perfectly linear series [a, a+d, ..., a+(n-1)d], n >= 2,
\* linearPredict returns nextValue = a + n*d, labelled "HIGH_TREND" when
\* |d| > 0.1 and "STAGNANT" when |d| <= 0.1.
C11_LinearRoundTrip ==
    LET S == args.series
        n == Len(S)
        a == S[1]
        d == Sub(S[2], S[1])
    IN (InLinearCall /\ n >= 2
          /\ \A i \in 1 .. (n - 1) : Sub(S[i + 1], S[i]) = d) =>
        /\ ret.kind = "predict"
        /\ EQ(ret.val.nextValue, Add(a, Mul(Q(n), d)))
        /\ ret.val.confidence =
              IF LE(MathAbs(d), Norm(1, 10)) THEN "STAGNANT" ELSE "HIGH_TREND"

\* a rising line whose step is exactly the threshold 0.1
C11_Witness ==
    /\ InLinearCall
    /\ Len(args.series) >= 3
    /\ \A i \in 1 .. (Len(args.series) - 1) :
          Sub(args.series[i + 1], args.series[i]) = Norm(1, 10)
    /\ ret.val.confidence = "STAGNANT"
    /\ EQ(ret.val.nextValue, Add(args.series[Len(args.series)], Norm(1, 10)))

\* C12: linearPredict on fewer than 2 points fails with InsufficientDataError
\* and returns no result record (never a record whose nextValue is NaN).
C12_LinearNeedsTwoPoints ==
    (InLinearCall /\ Len(args.series) < 2) =>
        /\ ret.kind = "throw"
        /\ ret.val = "InsufficientDataError"

InGbmCall == fn = "gbmPath"
InMonteCarloCall == fn = "runMonteCarlo"

\* C13: gbmPath returns a path of exactly steps + 1 elements whose first
\* element is S0, each later element being its predecessor times a strictly
\* positive factor exp(drift + diffusion); for S0 > 0 every element is > 0.
\* (T >= 0 and finite arguments; c * exp(e) is positive iff c is.)
C13_GbmPathShape ==
    InGbmCall =>
        /\ ret.kind = "path"
        /\ Len(ret.val) = args.steps + 1
        /\ ret.val[1] = ExpOf(Q(args.S0))
        /\ \A i \in 1 .. (Len(ret.val) - 1) :
              \E u \in Us :
                  LET factor == MathExp(GbmExponent(args.mu, args.sigma, args.T, args.steps, u))
                  IN /\ LT(Q(0), factor.c)
                     /\ IsFinite(factor.e.a)
                     /\ ret.val[i + 1] = ExpMul(ret.val[i], factor)
        /\ args.S0 > 0 => \A i \in 1 .. Len(ret.val) : LT(Q(0), ret.val[i].c)

\* a path of several steps with drift and an irrational diffusion
C13_Witness ==
    /\ InGbmCall
    /\ args.S0 > 0
    /\ args.steps >= 2
    /\ args.sigma # 0
    /\ Len(ret.val) = args.steps + 1
    /\ ret.val[2] # ret.val[1]
    /\ ret.val[3].e.b # Q(0)
    /\ ret.val[3].e.f > 1

\* C14: two calls of runMonteCarlo or gbmPath with identical arguments (the
\* random source being one of the arguments) return identical outputs.
C14_ReproducibleDraws ==
    ((InGbmCall \/ InMonteCarloCall) /\ prevRet.kind # "none") => ret = prevRet

\* C15: for len(S) > period, Indicators.rsi equals the Wilder reference:
\* avgGain and avgLoss are seeded as the simple averages of the gains and of
\* the non-negative loss magnitudes over the first `period` differences,
\* each later difference updates them by avg = (avg*(period-1) + cur)/period,
\* and the result is 100 when the final avgLoss is 0 and
\* 100 - 100/(1 + avgGain/avgLoss) otherwise.
C15_RsiIsWilder ==
    LET S == args.data
        period == args.period
        Gain(i) == IF S[i + 1] > S[i] THEN Q(S[i + 1] - S[i]) ELSE Q(0)
        Loss(i) == IF S[i + 1] < S[i] THEN Q(S[i] - S[i + 1]) ELSE Q(0)
        RECURSIVE SumGain(_)
        SumGain(i) == IF i = 0 THEN Q(0) ELSE Add(SumGain(i - 1), Gain(i))
        RECURSIVE SumLoss(_)
        SumLoss(i) == IF i = 0 THEN Q(0) ELSE Add(SumLoss(i - 1), Loss(i))
        RECURSIVE AvgGain(_)
        AvgGain(i) ==
            IF i = period THEN Div(SumGain(period), Q(period))
            ELSE Div(Add(Mul(AvgGain(i - 1), Q(period - 1)), Gain(i)), Q(period))
        RECURSIVE AvgLoss(_)
        AvgLoss(i) ==
            IF i = period THEN Div(SumLoss(period), Q(period))
            ELSE Div(Add(Mul(AvgLoss(i - 1), Q(period - 1)), Loss(i)), Q(period))
        g == AvgGain(Len(S) - 1)
        l == AvgLoss(Len(S) - 1)
        wilder == IF l = Q(0) THEN Q(100)
                  ELSE Sub(Q(100), Div(Q(100), Add(Q(1), Div(g, l))))
    IN (InRsiCall /\ Len(S) > period) => ret = RetNum(wilder)

InVickreyCall == fn = "calculateVickreyWinner"

\* C16: calculateVickreyWinner returns null for fewer than 2 bids; otherwise
\* the winner is the user of a bid with the maximum amount, priceToPay is the
\* second-largest amount (so priceToPay <= the winner's bid and savings >= 0)
\* and the caller's bids array keeps its order.
C16_VickreyResult ==
    LET B == args.bids
        n == Len(B)
        \* the k-th largest amount
        KthLargest(k) == CHOOSE v \in {B[i].amount : i \in 1 .. n} :
                            /\ Cardinality({i \in 1 .. n : B[i].amount > v}) < k
                            /\ k <= Cardinality({i \in 1 .. n : B[i].amount >= v})
    IN InVickreyCall =>
        /\ n < 2 => ret = RetNull
        /\ n >= 2 =>
              /\ ret.kind = "auction"
              /\ \E i \in 1 .. n : /\ B[i].user = ret.val.winner
                                   /\ B[i].amount = KthLargest(1)
                                   /\ LE(ret.val.priceToPay, Q(B[i].amount))
              /\ ret.val.priceToPay = Q(KthLargest(2))
              /\ LE(Q(0), ret.val.savings)
        /\ bids = B

\* C17 (result part): whenever simulateMining returns, its hash starts with
\* `difficulty` '0' characters and is the hexadecimal rendering of the
\* absolute value of the 32-bit rolling hash of data concatenated with nonce.
C17_MiningResult ==
    (fn = "simulateMining" /\ ret.kind = "mined") =>
        /\ StartsWith(ret.val.hash, MineTarget(args.difficulty))
        /\ ret.val.hash = getHash(args.data \o DecimalCodes(ret.val.nonce))

====
